---- MODULE Spec2Model ----
(***************************************************************************)
(* Model of the production CDC sync subsystem under                        *)
(* src/FinalProjectPOC/production/src: the job orchestrator                *)
(* (production_sync.py), the error handler (error_handler.py), the job     *)
(* gauges of the metrics collector (metrics_collector.py) and the health   *)
(* checker's status fold (health_checker.py).                              *)
(*                                                                         *)
(* Scheduling.  The program is single-threaded asyncio.  A coroutine keeps *)
(* the event loop until it awaits something that really suspends; in the   *)
(* orchestrator and the error handler the only such awaits are the         *)
(* asyncio.sleep calls of the two periodic loops and of _schedule_retry    *)
(* (execute_sql is a blocking call, and awaiting a coroutine that never    *)
(* suspends does not yield).  The variable cur names the coroutine that    *)
(* holds the event loop and its position; another task is resumed only     *)
(* when cur = Idle.  A coroutine is still modelled statement by statement, *)
(* so the intermediate job states are states of the model.                 *)
(***************************************************************************)
EXTENDS Integers, Sequences, FiniteSets, TLC

\* ------------------------------------------------------------------ bounds
\* start() calls made by the embedding application in one run
MaxStarts == 2
\* start() calls plus faults raised in one run of the orchestrator
MaxEvents == 3
\* faults raised in one run of the error handler on its own
MaxHandlerFaults == 4
\* largest value the model lets a job gauge reach
MaxGauge == 4
\* largest retry count the delay calculation is applied to
MaxRetryCount == 5
\* tables of a configuration that is validated
MaxTables == 2
\* largest value the model lets a sample of the records counter reach
MaxCount == 3
\* entries the model lets the metrics buffer hold
MaxBuffered == 3
\* largest max_retries a wrapped function is run with
MaxBackoffRetries == 3
\* faults raised in one run of the long-running error handler
MaxHistoryFaults == 2

\* ------------------------------------------------------- program constants
HistoryCap == 1000
HistoryKeep == 500
BufferCap == 10000
BufferKeep == 5000

\* ----------------------------------------------------------- configuration
\* config.tables, in file order (TableConfig.source_table)
AllTables == <<"users", "orders">>

TableNames == {AllTables[i] : i \in 1..Len(AllTables)}

\* values of error_handling.max_retries the model is run with
RetryLimits == {0, 1, 2, 3}

\* (retry_delay, exponential_backoff, max_retry_delay) triples of the
\* error policy the orchestrator is run with
DelayPolicies == {<<500, TRUE, 5000>>}

\* every configuration the orchestrator is run with
Configs ==
  { [enabled |-> en, max_retries |-> mr, retry_delay |-> dp[1],
     exponential_backoff |-> dp[2], max_retry_delay |-> dp[3],
     dead_letter_queue |-> dlq] :
      en \in SUBSET TableNames, mr \in RetryLimits,
      dp \in DelayPolicies, dlq \in BOOLEAN }

\* ErrorHandlingConfig as declared: the defaults of the error policy, with
\* both tables enabled
DefaultConfig ==
  [enabled |-> TableNames, max_retries |-> 3, retry_delay |-> 5000,
   exponential_backoff |-> TRUE, max_retry_delay |-> 300000,
   dead_letter_queue |-> TRUE]

\* ProductionConfigManager.get_all_tables: the enabled tables, in file order
get_all_tables(cfg) == SelectSeq(AllTables, LAMBDA t : t \in cfg.enabled)

\* the elements of sequence s
Range(s) == {s[i] : i \in DOMAIN s}

\* validate_config, lines 341-346: the violations of the i-th table
table_errors(table, i) ==
  (IF table.source_table = "" THEN <<<<"source_table_required", i>>>> ELSE <<>>)
  \o (IF table.target_table = "" THEN <<<<"target_table_required", i>>>> ELSE <<>>)
  \o (IF table.primary_key = "" THEN <<<<"primary_key_required", i>>>> ELSE <<>>)

RECURSIVE tables_errors(_, _)
\* validate_config, lines 340-346: the violations of tables i, i+1, ...
tables_errors(tables, i) ==
  IF i > Len(tables) THEN <<>>
  ELSE table_errors(tables[i], i) \o tables_errors(tables, i + 1)

\* ProductionConfigManager.validate_config
validate_config(loaded) ==
  (IF loaded.postgres_host = "" THEN <<<<"postgres_host_required", 0>>>> ELSE <<>>)
  \o (IF loaded.starrocks_host = "" THEN <<<<"starrocks_host_required", 0>>>> ELSE <<>>)
  \o (IF loaded.tables = <<>> THEN <<<<"table_required", 0>>>> ELSE <<>>)
  \o tables_errors(loaded.tables, 1)

\* ------------------------------------------------------------- fault kinds
\* Exception classes the classifier distinguishes, with the built-in classes
\* each is an instance of (Python 3: ConnectionError and TimeoutError are
\* subclasses of OSError; KeyboardInterrupt and SystemExit are not
\* Exceptions).
FaultKinds ==
  {"ConnectionError", "TimeoutError", "ValueError", "TypeError",
   "KeyboardInterrupt", "SystemExit", "MemoryError", "OSError", "RuntimeError"}

Bases(kind) ==
  CASE kind = "ConnectionError"   -> {"ConnectionError", "OSError", "Exception"}
    [] kind = "TimeoutError"      -> {"TimeoutError", "OSError", "Exception"}
    [] kind = "ValueError"        -> {"ValueError", "Exception"}
    [] kind = "TypeError"         -> {"TypeError", "Exception"}
    [] kind = "KeyboardInterrupt" -> {"KeyboardInterrupt"}
    [] kind = "SystemExit"        -> {"SystemExit"}
    [] kind = "MemoryError"       -> {"MemoryError", "Exception"}
    [] kind = "OSError"           -> {"OSError", "Exception"}
    [] kind = "ConnectionResetError" ->
         {"ConnectionResetError", "ConnectionError", "OSError", "Exception"}
    [] kind = "FileNotFoundError" -> {"FileNotFoundError", "OSError", "Exception"}
    [] kind = "UnicodeDecodeError" ->
         {"UnicodeDecodeError", "ValueError", "Exception"}
    [] OTHER                      -> {kind, "Exception"}

isinstance(kind, classes) == Bases(kind) \cap classes # {}

\* faults an `except Exception` clause of the orchestrator or of
\* _schedule_retry can catch; the model raises these from the stream engine
\* and from the retried operation
RaisedKinds == {"ConnectionError", "ValueError"}

\* the three submissions of one start attempt
Stages == {"source", "sink", "query"}

\* ---------------------------------------------------------- error handler
\* ErrorContext(): the context handle_error builds when it is given none
ErrorContext == [table |-> "None", operation |-> "None", retry_count |-> 0]

\* ErrorHandler._determine_severity
determine_severity(kind) ==
  IF isinstance(kind, {"ConnectionError", "TimeoutError"}) THEN "high"
  ELSE IF isinstance(kind, {"ValueError", "TypeError"}) THEN "medium"
  ELSE IF isinstance(kind, {"KeyboardInterrupt", "SystemExit"}) THEN "critical"
  ELSE "medium"

\* ErrorHandler._determine_category with the test of line 222 made first
determine_category_system_first(kind) ==
  IF isinstance(kind, {"MemoryError", "OSError"}) THEN "system"
  ELSE IF isinstance(kind, {"ConnectionError", "TimeoutError"}) THEN "connection"
  ELSE IF isinstance(kind, {"ValueError", "TypeError"}) THEN "data_validation"
  ELSE "unknown"

\* ErrorHandler._determine_category
determine_category(kind) ==
  IF isinstance(kind, {"ConnectionError", "TimeoutError"}) THEN "connection"
  ELSE IF isinstance(kind, {"ValueError", "TypeError"}) THEN "data_validation"
  ELSE IF isinstance(kind, {"MemoryError", "OSError"}) THEN "system"
  ELSE "unknown"

\* ErrorHandler._is_retryable
is_retryable(kind) ==
  IF isinstance(kind, {"KeyboardInterrupt", "SystemExit"}) THEN FALSE
  ELSE IF isinstance(kind, {"ValueError", "TypeError"}) THEN FALSE
  ELSE IF isinstance(kind, {"ConnectionError", "TimeoutError"}) THEN TRUE
  ELSE TRUE

\* ErrorHandler._classify_error: the SyncError of a fault.  context is the
\* index of the (shared, mutable) ErrorContext in error_handler.contexts.
classify_error(cfg, kind, ctx) ==
  [error_type |-> kind, message |-> kind,
   severity |-> determine_severity(kind),
   category |-> determine_category(kind),
   context |-> ctx,
   retryable |-> is_retryable(kind),
   max_retries |-> cfg.max_retries,
   retry_delay |-> cfg.retry_delay]

Min(a, b) == IF a <= b THEN a ELSE b

\* ErrorHandler._calculate_retry_delay
calculate_retry_delay(cfg, retry_delay, retry_count) ==
  IF cfg.exponential_backoff
  THEN Min(retry_delay * (2 ^ retry_count), cfg.max_retry_delay)
  ELSE retry_delay

\* retry_with_backoff, line 411, with the cap left out
backoff_delay_uncapped(b, attempt) ==
  b.base_delay * (b.exponential_base ^ attempt)

\* retry_with_backoff, line 411: the delay slept after a failed attempt
backoff_delay(b, attempt) ==
  Min(b.base_delay * (b.exponential_base ^ attempt), b.max_delay)

send_to_dead_letter_queue_unless_enabled(cfg, eh, sync_error) ==
  IF ~cfg.dead_letter_queue
  THEN [eh EXCEPT !.dead_letter_queue = Append(@, sync_error)]
  ELSE eh

\* ErrorHandler._send_to_dead_letter_queue
send_to_dead_letter_queue(cfg, eh, sync_error) ==
  IF cfg.dead_letter_queue
  THEN [eh EXCEPT !.dead_letter_queue = Append(@, sync_error)]
  ELSE eh

handle_retry_off_by_one(cfg, eh, sync_error) ==
  IF eh.contexts[sync_error.context].retry_count > sync_error.max_retries
  THEN send_to_dead_letter_queue(cfg, eh, sync_error)
  ELSE [eh EXCEPT !.retry_tasks[sync_error.context] =
          Append(@, calculate_retry_delay(cfg, sync_error.retry_delay,
                      eh.contexts[sync_error.context].retry_count))]

\* ErrorHandler._handle_retry: dead-letter an exhausted fault, else create
\* the _schedule_retry task with the computed delay.  retry_tasks[c] lists
\* the delays of the _schedule_retry tasks of context c that have been
\* created and have not fired yet.
handle_retry(cfg, eh, sync_error) ==
  IF eh.contexts[sync_error.context].retry_count >= sync_error.max_retries
  THEN send_to_dead_letter_queue(cfg, eh, sync_error)
  ELSE [eh EXCEPT !.retry_tasks[sync_error.context] =
          Append(@, calculate_retry_delay(cfg, sync_error.retry_delay,
                      eh.contexts[sync_error.context].retry_count))]

\* ErrorHandler._handle_non_retryable_error
handle_non_retryable_error(cfg, eh, sync_error) ==
  send_to_dead_letter_queue(cfg, eh, sync_error)

\* ErrorHandler._update_error_counts: key "<table>_<error_type>"
update_error_counts(eh, sync_error) ==
  LET key == <<eh.contexts[sync_error.context].table, sync_error.error_type>>
  IN  [eh EXCEPT !.error_counts =
         IF key \in DOMAIN @ THEN [@ EXCEPT ![key] = @ + 1]
         ELSE @ @@ (key :> 1)]

\* the last n elements of s (s[-n:])
Last(s, n) == IF Len(s) <= n THEN s ELSE SubSeq(s, Len(s) - n + 1, Len(s))

\* ErrorHandler.handle_error, lines 165-170, truncating a full history
\* already
append_error_history_at_cap(eh, sync_error) ==
  LET h == Append(eh.error_history, sync_error)
  IN  [eh EXCEPT !.error_history =
         IF Len(h) >= HistoryCap THEN Last(h, HistoryKeep) ELSE h]

\* ErrorHandler.handle_error, lines 165-170: append to the history, truncate
append_error_history(eh, sync_error) ==
  LET h == Append(eh.error_history, sync_error)
  IN  [eh EXCEPT !.error_history =
         IF Len(h) > HistoryCap THEN Last(h, HistoryKeep) ELSE h]

\* ErrorHandler.handle_error on the ErrorContext with index ctx
handle_error_in(cfg, eh, kind, ctx) ==
  LET sync_error == classify_error(cfg, kind, ctx)
      routed == IF sync_error.retryable
                THEN handle_retry(cfg, eh, sync_error)
                ELSE handle_non_retryable_error(cfg, eh, sync_error)
  IN  append_error_history(update_error_counts(routed, sync_error), sync_error)

\* ErrorHandler.handle_error(exception, context) given the ErrorContext of
\* the previous fault, when there is one, instead of none
handle_error_shared_context(cfg, eh, kind) ==
  IF eh.contexts = <<>>
  THEN handle_error_in(cfg, [eh EXCEPT !.contexts = Append(@, ErrorContext),
                                       !.retry_tasks = Append(@, <<>>)],
                       kind, 1)
  ELSE handle_error_in(cfg, eh, kind, Len(eh.contexts))

\* ErrorHandler.handle_error(exception, context) with no error_context: a
\* fresh ErrorContext is created for the fault
handle_error(cfg, eh, kind) ==
  handle_error_in(cfg, [eh EXCEPT !.contexts = Append(@, ErrorContext),
                                  !.retry_tasks = Append(@, <<>>)],
                  kind, Len(eh.contexts) + 1)

\* ------------------------------------------------------- metrics collector
\* MetricsCollector.record_job_status on the job gauges
record_job_status(m, status) ==
  IF status = "running" THEN [m EXCEPT !.active_jobs = @ + 1]
  ELSE IF status = "error" THEN [m EXCEPT !.error_jobs = @ + 1]
  ELSE m

\* MetricsCollector.record_app_metrics on the job gauges: a value is set
\* only under a name that is a key of self.metrics
record_app_metrics(m, app) ==
  [name \in DOMAIN m |-> IF name \in DOMAIN app THEN app[name] ELSE m[name]]

\* record_record_processed, lines 175-178: labels(table, operation).inc(count)
\* with no refusal of a negative amount
counter_inc_any_amount(counter, labels, amount) ==
  [counter EXCEPT ![labels] = @ + amount]

\* record_record_processed, lines 175-178: labels(table, operation).inc(count)
\* on a Counter, which raises on a negative amount and leaves the sample
counter_inc(counter, labels, amount) ==
  IF amount < 0 THEN counter ELSE [counter EXCEPT ![labels] = @ + amount]

\* MetricsCollector._add_to_buffer on the values of the buffered MetricData
add_to_buffer(buffer, value) ==
  LET b == Append(buffer, value)
  IN  IF Len(b) > BufferCap THEN Last(b, BufferKeep) ELSE b

\* MetricsCollector.record_app_metrics on the records counter: the name is a
\* key of self.metrics, a Counter has no set, and inc on the counter itself
\* (no label values) raises, so no sample changes
record_app_metrics_counter(counter, value) == counter

\* ---------------------------------------------------------- health checker
\* the five named probes
ProbeNames ==
  {"postgres_connection", "starrocks_connection", "flink_environment",
   "sync_jobs", "system_resources"}

\* HealthStatus
HealthStatuses == {"healthy", "unhealthy", "degraded", "unknown"}

\* the statuses of the probes that have a result in checks ("none": the
\* probe has no entry in health_checks)
recorded_statuses(checks) == {checks[p] : p \in DOMAIN checks} \ {"none"}

get_overall_health_status_degraded_first(checks) ==
  LET statuses == recorded_statuses(checks)
  IN  IF statuses = {} THEN "unknown"
      ELSE IF "degraded" \in statuses THEN "degraded"
      ELSE IF "unhealthy" \in statuses THEN "unhealthy"
      ELSE IF \A status \in statuses : status = "healthy" THEN "healthy"
      ELSE "unknown"

\* HealthChecker._get_overall_health_status
get_overall_health_status(checks) ==
  LET statuses == recorded_statuses(checks)
  IN  IF statuses = {} THEN "unknown"
      ELSE IF "unhealthy" \in statuses THEN "unhealthy"
      ELSE IF "degraded" \in statuses THEN "degraded"
      ELSE IF \A status \in statuses : status = "healthy" THEN "healthy"
      ELSE "unknown"

\* _ready_endpoint, line 148
ready_checks ==
  {"postgres_connection", "starrocks_connection", "flink_environment"}

\* self.health_checks.get(check, HealthCheck(status=UNKNOWN)).status
check_status(checks, check) ==
  IF checks[check] = "none" THEN "unknown" ELSE checks[check]

ready_status_of_every_probe(checks) ==
  IF \A check \in ProbeNames : check_status(checks, check) = "healthy"
  THEN 200 ELSE 503

\* _ready_endpoint, lines 150-160: all_ready and the status code
ready_status(checks) ==
  IF \A check \in ready_checks : check_status(checks, check) = "healthy"
  THEN 200 ELSE 503

\* MetricsCollector.get_metrics_summary on the job gauges: one entry per
\* key of self.metrics
get_metrics_summary(m) == [name \in DOMAIN m |-> m[name]]

\* d.get(key, default)
dict_get(d, key, default) == IF key \in DOMAIN d THEN d[key] ELSE default

\* _check_sync_jobs, lines 324-340: the status of the sync_jobs probe
check_sync_jobs(m) ==
  LET metrics_summary == get_metrics_summary(m)
      error_jobs == dict_get(metrics_summary, "sync_error_jobs", 0)
      active_jobs == dict_get(metrics_summary, "sync_active_jobs", 0)
  IN  IF error_jobs > 0 THEN "degraded"
      ELSE IF active_jobs > 0 THEN "healthy"
      ELSE "unknown"

\* _run_health_checks, lines 200-204: the probes of one cycle, in order
ProbeOrder ==
  <<"postgres_connection", "starrocks_connection", "flink_environment",
    "sync_jobs", "system_resources">>

\* what _check_system_resources finds when psutil answers: usage above 90,
\* above 70, or below
UsageLevels == {"unhealthy", "degraded", "healthy"}

\* the status one run of a probe records: a probe whose body raises records
\* UNHEALTHY in its except branch, except _check_system_resources, which
\* records UNKNOWN; otherwise a connectivity probe records HEALTHY, the
\* sync_jobs probe what the gauges give, the system_resources probe the
\* level of the usage
probe_status(name, m, raised, level) ==
  IF raised THEN (IF name = "system_resources" THEN "unknown" ELSE "unhealthy")
  ELSE IF name \in ready_checks THEN "healthy"
  ELSE IF name = "sync_jobs" THEN check_sync_jobs(m)
  ELSE level

\* ------------------------------------------------------------ orchestrator
VARIABLES
  config,         \* the loaded configuration (immutable)
  running,        \* ProductionSyncApp.running
  sync_jobs,      \* ProductionSyncApp.sync_jobs: table -> SyncJob or NoJob
  cur,            \* the coroutine holding the event loop, and its position
  starts,         \* start() calls made so far
  shutdown,       \* stop() has returned and start() was not called since
  monitor_tasks,  \* the _monitor_jobs task created by the g-th start()
  metrics_tasks,  \* the _collect_metrics task created by the g-th start()
  error_handler,  \* ErrorHandler: contexts, retry tasks, queue, counts, history
  call_sites,     \* call_sites[c]: the call of handle_error that made context c
  metrics,        \* MetricsCollector: the two job gauges
  budget,         \* start() calls and faults the run may still make
  delay_call,     \* one call of _calculate_retry_delay: argument and result
  health_checks,  \* HealthChecker.health_checks: probe name -> status
  overall_status, \* the value _get_overall_health_status returned, if any
  ready_response, \* the status code _ready_endpoint answered with, if any
  health,         \* HealthChecker: running, its main coroutine, its probe task
  loaded_config,  \* the sections one validate_config call reads
  validation,     \* the list validate_config returned, if any
  records_processed, \* the records_processed counter: labels -> value
  metrics_buffer, \* MetricsCollector.metrics_buffer
  app,            \* ProductionApp: position of start(), listeners, exit status
  classified,     \* one call of _classify_error: the fault and the SyncError
  backoff         \* one call of a function wrapped by retry_with_backoff

vars ==
  <<config, running, sync_jobs, cur, starts, shutdown, monitor_tasks,
    metrics_tasks, error_handler, call_sites, metrics, budget, delay_call,
    health_checks, overall_status, ready_response, health, loaded_config,
    validation, records_processed, metrics_buffer, app, classified,
    backoff>>

\* the variables of the pure-function specifications
side ==
  <<delay_call, health_checks, overall_status, ready_response, health,
    loaded_config, validation, records_processed, metrics_buffer, app, classified,
    backoff>>

\* the variables of the orchestrator and the error handler
orchestrator ==
  <<config, running, sync_jobs, cur, starts, shutdown, monitor_tasks,
    metrics_tasks, error_handler, call_sites, metrics, budget>>

Idle == [task |-> "idle", g |-> 0, i |-> 0, at |-> "idle"]

\* no entry under a key of sync_jobs
NoJob ==
  [gen |-> 0, status |-> "absent", start_time |-> "None", error_count |-> 0,
   last_error |-> "None"]

\* SyncJob(table_config, status=STOPPED); gen tells the objects that
\* successive start() calls put under one key apart
SyncJob(g) ==
  [gen |-> g, status |-> "stopped", start_time |-> "None", error_count |-> 0,
   last_error |-> "None"]

\* the keys of sync_jobs in the order sync_jobs.values() iterates them
JobKeys == SelectSeq(AllTables, LAMBDA t : sync_jobs[t].gen # 0)

\* the table whose job the running coroutine is working on
CurTable ==
  IF cur.task = "start" THEN get_all_tables(config)[cur.i] ELSE JobKeys[cur.i]

Count(status) == Cardinality({t \in TableNames : sync_jobs[t].status = status})

\* the state after construction of the components, with a configuration of
\* cfgs and a budget of b events
BootJobs(cfgs, b) ==
  /\ config \in cfgs
  /\ running = FALSE
  /\ sync_jobs = [t \in TableNames |-> NoJob]
  /\ cur = Idle
  /\ starts = 0
  /\ shutdown = FALSE
  /\ monitor_tasks = [g \in 1..MaxStarts |-> "none"]
  /\ metrics_tasks = [g \in 1..MaxStarts |-> "none"]
  /\ error_handler =
       [contexts |-> <<>>, retry_tasks |-> <<>>, dead_letter_queue |-> <<>>,
        error_counts |-> <<>>, error_history |-> <<>>]
  /\ call_sites = <<>>
  /\ budget = b

\* the same, with the job gauges as the registry creates them
Boot(cfgs, b) ==
  /\ BootJobs(cfgs, b)
  /\ metrics = [active_jobs |-> 0, error_jobs |-> 0]

\* no call of _calculate_retry_delay or _get_overall_health_status is
\* observed, no probe has a result
NoDelayCall == delay_call = [retry_count |-> 0, result |-> <<>>]

\* HealthChecker(config, metrics): not running, no probe task, no result,
\* and no request answered; failed holds the probes whose latest run raised
HealthChecker ==
  [enabled |-> TRUE, running |-> FALSE, main |-> "init", task |-> "none",
   probe |-> 0, failed |-> {}]

NoHealthChecker ==
  /\ health_checks = [p \in ProbeNames |-> "none"]
  /\ overall_status = "none"
  /\ ready_response = <<>>
  /\ health = HealthChecker

\* no call of validate_config is observed
NoValidation ==
  /\ loaded_config = [postgres_host |-> "localhost",
                      starrocks_host |-> "localhost", tables |-> <<>>]
  /\ validation = <<>>

\* the operation labels the records_processed counter is used with
Operations == {"insert", "delete"}

\* the label pairs of the records_processed counter
Labels == TableNames \X Operations

\* MetricsCollector(config): the counter has no sample, the buffer is empty
NoCounters ==
  /\ records_processed = [l \in Labels |-> 0]
  /\ metrics_buffer = <<>>

\* ProductionApp() started on a well-formed configuration source with no
\* table: nothing loaded, no listener bound, the process runs
ProductionApp ==
  [pc |-> "init", postgres |-> "ok", starrocks |-> "ok", flink |-> "ok",
   tables |-> <<>>, monitoring |-> TRUE, listeners |-> {},
   exit_status |-> <<>>]

NoApp == app = ProductionApp

\* retry_with_backoff() with its default arguments around a function that
\* has not been called: the position of the wrapper, the attempt of its
\* loop, the invocations made, the delays slept, and how the call ended
Backoff ==
  [max_retries |-> 3, base_delay |-> 1000, max_delay |-> 30000,
   exponential_base |-> 2, at |-> "none", attempt |-> 0, calls |-> 0,
   sleeps |-> <<>>, outcome |-> <<>>]

\* no call of _classify_error and no call of a wrapped function is observed
NoCalls ==
  /\ classified = [kind |-> "None", result |-> <<>>]
  /\ backoff = Backoff

NoSide ==
  /\ NoDelayCall
  /\ NoHealthChecker
  /\ NoValidation
  /\ NoCounters
  /\ NoApp
  /\ NoCalls

Init == Boot(Configs, MaxEvents) /\ NoSide

\* ProductionSyncApp.start is called
start_call ==
  /\ cur = Idle
  /\ starts < MaxStarts
  /\ budget > 0
  /\ budget' = budget - 1
  /\ starts' = starts + 1
  /\ shutdown' = FALSE
  /\ cur' = [task |-> "start", g |-> starts + 1, i |-> 1, at |-> "setup"]
  /\ UNCHANGED <<side, config, running, sync_jobs, monitor_tasks, metrics_tasks,
                 error_handler, call_sites, metrics>>

\* start, lines 69 and 81-84: _setup_flink_environment returns, or raises
\* and start() hands the fault to the error handler and re-raises
start_setup ==
  /\ cur.task = "start" /\ cur.at = "setup"
  /\ \/ /\ cur' = [cur EXCEPT !.at = "init"]
        /\ UNCHANGED <<error_handler, call_sites, budget>>
     \/ /\ budget > 0
        /\ budget' = budget - 1
        /\ \E kind \in RaisedKinds :
             error_handler' = handle_error(config, error_handler, kind)
        /\ call_sites' = Append(call_sites, <<"sync_startup", "None">>)
        /\ cur' = Idle
  /\ UNCHANGED <<side, config, running, sync_jobs, starts, shutdown, monitor_tasks,
                 metrics_tasks, metrics>>

\* _initialize_sync_jobs, lines 144-150: the next enabled table gets a new
\* SyncJob under its source_table
initialize_sync_jobs ==
  /\ cur.task = "start" /\ cur.at = "init"
  /\ cur.i <= Len(get_all_tables(config))
  /\ sync_jobs' = [sync_jobs EXCEPT ![CurTable] = SyncJob(cur.g)]
  /\ cur' = [cur EXCEPT !.at = "start_job"]
  /\ UNCHANGED <<side, config, running, starts, shutdown, monitor_tasks,
                 metrics_tasks, error_handler, call_sites, metrics, budget>>

\* start, lines 75-79: the two loops are created as tasks, running is set
start_return ==
  /\ cur.task = "start" /\ cur.at = "init"
  /\ cur.i > Len(get_all_tables(config))
  /\ monitor_tasks' = [monitor_tasks EXCEPT ![cur.g] = "waiting"]
  /\ metrics_tasks' = [metrics_tasks EXCEPT ![cur.g] = "waiting"]
  /\ running' = TRUE
  /\ cur' = Idle
  /\ UNCHANGED <<side, config, sync_jobs, starts, shutdown, error_handler,
                 call_sites, metrics, budget>>

starting_skipped(job) ==
  [job EXCEPT !.status = "running", !.start_time = "set"]

\* _start_sync_job, lines 162-163
job_starting(job) ==
  [job EXCEPT !.status = "starting", !.start_time = "set"]

\* _start_sync_job, line 174
job_running(job) == [job EXCEPT !.status = "running"]

\* _start_sync_job, lines 178-180, without the count of the failure
job_failed_uncounted(job, kind) ==
  [job EXCEPT !.status = "error", !.last_error = kind]

\* _start_sync_job, lines 178-180
job_failed(job, kind) ==
  [job EXCEPT !.status = "error", !.error_count = @ + 1, !.last_error = kind]

\* where _start_sync_job returns to, with the loop of
\* _initialize_sync_jobs left after the first job
start_sync_job_return_leaves_loop ==
  IF cur.task = "start"
  THEN [cur EXCEPT !.i = Len(get_all_tables(config)) + 1, !.at = "init"]
  ELSE [cur EXCEPT !.at = "record"]

\* where _start_sync_job returns to: the loop of _initialize_sync_jobs, or
\* line 311 of _check_job_health
start_sync_job_return ==
  IF cur.task = "start" THEN [cur EXCEPT !.i = @ + 1, !.at = "init"]
  ELSE [cur EXCEPT !.at = "record"]

\* _start_sync_job, lines 162-163
start_sync_job_begin ==
  /\ cur.at = "start_job"
  /\ sync_jobs' = [sync_jobs EXCEPT ![CurTable] = job_starting(@)]
  /\ cur' = [cur EXCEPT !.at = "submit"]
  /\ UNCHANGED <<side, config, running, starts, shutdown, monitor_tasks,
                 metrics_tasks, error_handler, call_sites, metrics, budget>>

\* _start_sync_job, lines 168-182: the source definition, the sink
\* definition and the sync query are submitted; either all three return, or
\* one of them raises and the fault goes to the error handler
start_sync_job_submit ==
  /\ cur.at = "submit"
  /\ \/ /\ sync_jobs' = [sync_jobs EXCEPT ![CurTable] = job_running(@)]
        /\ UNCHANGED <<error_handler, call_sites, budget>>
     \/ /\ budget > 0
        /\ budget' = budget - 1
        /\ \E stage \in Stages, kind \in RaisedKinds :
             /\ sync_jobs' = [sync_jobs EXCEPT ![CurTable] = job_failed(@, kind)]
             /\ error_handler' = handle_error(config, error_handler, kind)
        /\ call_sites' = Append(call_sites, <<"job_start", CurTable>>)
  /\ cur' = start_sync_job_return
  /\ UNCHANGED <<side, config, running, starts, shutdown, monitor_tasks,
                 metrics_tasks, metrics>>

\* ProductionSyncApp.stop is called: line 89
stop_call ==
  /\ cur = Idle
  /\ running' = FALSE
  /\ cur' = [task |-> "stop", g |-> 0, i |-> 1, at |-> "stopping"]
  /\ UNCHANGED <<side, config, sync_jobs, starts, shutdown, monitor_tasks,
                 metrics_tasks, error_handler, call_sites, metrics, budget>>

\* _stop_sync_job, line 187
job_stopping(job) == [job EXCEPT !.status = "stopping"]

job_stopped_reset(job) ==
  [job EXCEPT !.status = "stopped", !.error_count = 0, !.last_error = "None"]

\* _stop_sync_job, line 193
job_stopped(job) == [job EXCEPT !.status = "stopped"]

\* stop, lines 93-94, and _stop_sync_job, line 187
stop_sync_job_begin ==
  /\ cur.task = "stop" /\ cur.at = "stopping"
  /\ cur.i <= Len(JobKeys)
  /\ sync_jobs' = [sync_jobs EXCEPT ![CurTable] = job_stopping(@)]
  /\ cur' = [cur EXCEPT !.at = "stopped"]
  /\ UNCHANGED <<side, config, running, starts, shutdown, monitor_tasks,
                 metrics_tasks, error_handler, call_sites, metrics, budget>>

\* _stop_sync_job, line 193
stop_sync_job_end ==
  /\ cur.task = "stop" /\ cur.at = "stopped"
  /\ sync_jobs' = [sync_jobs EXCEPT ![CurTable] = job_stopped(@)]
  /\ cur' = [cur EXCEPT !.i = @ + 1, !.at = "stopping"]
  /\ UNCHANGED <<side, config, running, starts, shutdown, monitor_tasks,
                 metrics_tasks, error_handler, call_sites, metrics, budget>>

\* stop, lines 96-100: every job has been stopped, stop() returns
stop_return ==
  /\ cur.task = "stop" /\ cur.at = "stopping"
  /\ cur.i > Len(JobKeys)
  /\ shutdown' = TRUE
  /\ cur' = Idle
  /\ UNCHANGED <<side, config, running, sync_jobs, starts, monitor_tasks,
                 metrics_tasks, error_handler, call_sites, metrics, budget>>

\* _monitor_jobs, line 288, when the task first runs or its sleep ends: the
\* loop goes through the jobs, or the task ends
monitor_jobs_wake(g) ==
  /\ cur = Idle
  /\ monitor_tasks[g] = "waiting"
  /\ IF running
     THEN /\ metrics.active_jobs + Len(JobKeys) <= MaxGauge
          /\ metrics.error_jobs + Len(JobKeys) <= MaxGauge
          /\ cur' = [task |-> "monitor", g |-> g, i |-> 1, at |-> "check"]
          /\ UNCHANGED monitor_tasks
     ELSE /\ monitor_tasks' = [monitor_tasks EXCEPT ![g] = "done"]
          /\ UNCHANGED cur
  /\ UNCHANGED <<side, config, running, sync_jobs, starts, shutdown, metrics_tasks,
                 error_handler, call_sites, metrics, budget>>

\* _check_job_health, lines 302-304, without the test of line 302
needs_restart_any_status(cfg, job) == job.error_count < cfg.max_retries

needs_restart_once_more(cfg, job) ==
  job.status = "error" /\ job.error_count <= cfg.max_retries

\* _check_job_health, lines 302-304: the job is restarted
needs_restart(cfg, job) ==
  job.status = "error" /\ job.error_count < cfg.max_retries

\* _check_job_health, lines 302-308, for the next job of the iteration
check_job_health ==
  /\ cur.task = "monitor" /\ cur.at = "check"
  /\ cur.i <= Len(JobKeys)
  /\ cur' = [cur EXCEPT !.at = IF needs_restart(config, sync_jobs[CurTable])
                                THEN "start_job" ELSE "record"]
  /\ UNCHANGED <<side, config, running, sync_jobs, starts, shutdown, monitor_tasks,
                 metrics_tasks, error_handler, call_sites, metrics, budget>>

\* _check_job_health, line 311
check_job_health_record ==
  /\ cur.task = "monitor" /\ cur.at = "record"
  /\ metrics' = record_job_status(metrics, sync_jobs[CurTable].status)
  /\ cur' = [cur EXCEPT !.i = @ + 1, !.at = "check"]
  /\ UNCHANGED <<side, config, running, sync_jobs, starts, shutdown, monitor_tasks,
                 metrics_tasks, error_handler, call_sites, budget>>

\* _monitor_jobs, line 293: every job was checked, the loop sleeps
monitor_jobs_sleep ==
  /\ cur.task = "monitor" /\ cur.at = "check"
  /\ cur.i > Len(JobKeys)
  /\ cur' = Idle
  /\ UNCHANGED <<side, config, running, sync_jobs, starts, shutdown, monitor_tasks,
                 metrics_tasks, error_handler, call_sites, metrics, budget>>

\* _collect_metrics, lines 321-325: the mapping given to record_app_metrics
app_metrics ==
  [running_jobs |-> Count("running"), error_jobs |-> Count("error"),
   total_jobs |-> Len(JobKeys)]

\* _collect_metrics, lines 318-327, when the task first runs or its sleep
\* ends: one iteration, or the task ends
collect_metrics(g) ==
  /\ cur = Idle
  /\ metrics_tasks[g] = "waiting"
  /\ IF running
     THEN /\ metrics' = record_app_metrics(metrics, app_metrics)
          /\ UNCHANGED metrics_tasks
     ELSE /\ metrics_tasks' = [metrics_tasks EXCEPT ![g] = "done"]
          /\ UNCHANGED metrics
  /\ UNCHANGED <<side, config, running, sync_jobs, cur, starts, shutdown,
                 monitor_tasks, error_handler, call_sites, budget>>

\* s without its k-th element
Remove(s, k) == SubSeq(s, 1, k - 1) \o SubSeq(s, k + 1, Len(s))

execute_retry_restarts_job(jobs, site) ==
  IF site[1] = "job_start" /\ jobs[site[2]].gen # 0
  THEN [jobs EXCEPT ![site[2]] = job_running(job_starting(@))]
  ELSE jobs

\* ErrorHandler._execute_retry: what it does to the jobs.  The method is a
\* stub that only logs: no operation of the orchestrator is invoked.
execute_retry(jobs, site) == jobs

\* _schedule_retry, lines 338-351, when the sleep of the k-th pending retry
\* task of context c ends: retry_count is incremented and _execute_retry
\* runs.  _execute_retry stands for the retried operation, which is not in
\* the repository; it returns, or it raises and the fault is handled with
\* the same context.
schedule_retry(c, k) ==
  /\ cur = Idle
  /\ LET fired == [error_handler EXCEPT
                     !.retry_tasks[c] = Remove(@, k),
                     !.contexts[c].retry_count = @ + 1]
     IN  \/ /\ error_handler' = fired
            /\ UNCHANGED budget
         \/ /\ budget > 0
            /\ budget' = budget - 1
            /\ \E kind \in RaisedKinds :
                 error_handler' = handle_error_in(config, fired, kind, c)
  /\ sync_jobs' = execute_retry(sync_jobs, call_sites[c])
  /\ UNCHANGED <<side, config, running, cur, starts, shutdown, monitor_tasks,
                 metrics_tasks, call_sites, metrics>>

Next ==
  \/ start_call
  \/ start_setup
  \/ initialize_sync_jobs
  \/ start_return
  \/ start_sync_job_begin
  \/ start_sync_job_submit
  \/ stop_call
  \/ stop_sync_job_begin
  \/ stop_sync_job_end
  \/ stop_return
  \/ \E g \in 1..MaxStarts : monitor_jobs_wake(g)
  \/ check_job_health
  \/ check_job_health_record
  \/ monitor_jobs_sleep
  \/ \E g \in 1..MaxStarts : collect_metrics(g)
  \/ \E c \in DOMAIN error_handler.contexts :
       \E k \in DOMAIN error_handler.retry_tasks[c] : schedule_retry(c, k)

Spec == Init /\ [][Next]_vars

\* ------------------------------------------- the error handler on its own
\* (retry_delay, exponential_backoff, max_retry_delay) triples of the error
\* policy the error handler is run with
HandlerDelayPolicies == {<<500, TRUE, 5000>>, <<500, FALSE, 5000>>}

\* every error policy the error handler is run with
HandlerConfigs ==
  { [enabled |-> TableNames, max_retries |-> mr, retry_delay |-> dp[1],
     exponential_backoff |-> dp[2], max_retry_delay |-> dp[3],
     dead_letter_queue |-> dlq] :
      mr \in RetryLimits, dp \in HandlerDelayPolicies, dlq \in BOOLEAN }

\* the fault kinds the error handler is called with: one of each
\* (severity, category, retryable) classification
HandlerKinds ==
  {"ConnectionError", "ValueError", "KeyboardInterrupt", "MemoryError",
   "RuntimeError"}

HandlerInit == Boot(HandlerConfigs, MaxHandlerFaults) /\ NoSide

\* ErrorHandler.handle_error(exception, context) is called by some component
\* with a fault of any kind and no error_context
handler_fault ==
  /\ cur = Idle
  /\ budget > 0
  /\ budget' = budget - 1
  /\ \E kind \in HandlerKinds :
       error_handler' = handle_error(config, error_handler, kind)
  /\ call_sites' = Append(call_sites, <<"caller", "None">>)
  /\ UNCHANGED <<side, config, running, sync_jobs, cur, starts, shutdown,
                 monitor_tasks, metrics_tasks, metrics>>

HandlerNext ==
  \/ handler_fault
  \/ \E c \in DOMAIN error_handler.contexts :
       \E k \in DOMAIN error_handler.retry_tasks[c] : schedule_retry(c, k)

HandlerSpec == HandlerInit /\ [][HandlerNext]_vars

\* ------------------------------------------------- a long-running handler
\* the error policies the long-running error handler is run with
HistoryConfigs ==
  { [DefaultConfig EXCEPT !.max_retries = 1, !.retry_delay = 500,
                          !.max_retry_delay = 5000, !.dead_letter_queue = dlq] :
      dlq \in BOOLEAN }

\* the numbers of faults handled before the run that is observed
HandledBefore == (HistoryCap - 1)..HistoryCap

\* the ErrorHandler after n faults of kind ValueError, each handled by
\* handle_error with no error_context: n contexts, no retry task, the n
\* records in the history and, when enabled, in the dead-letter list
handled_before(cfg, n) ==
  LET records == [i \in 1..n |-> classify_error(cfg, "ValueError", i)]
  IN  [contexts |-> [i \in 1..n |-> ErrorContext],
       retry_tasks |-> [i \in 1..n |-> <<>>],
       dead_letter_queue |-> IF cfg.dead_letter_queue THEN records ELSE <<>>,
       error_counts |-> IF n = 0 THEN <<>>
                        ELSE (<<"None", "ValueError">> :> n),
       error_history |-> records]

HistoryInit ==
  /\ config \in HistoryConfigs
  /\ running = FALSE
  /\ sync_jobs = [t \in TableNames |-> NoJob]
  /\ cur = Idle
  /\ starts = 0
  /\ shutdown = FALSE
  /\ monitor_tasks = [g \in 1..MaxStarts |-> "none"]
  /\ metrics_tasks = [g \in 1..MaxStarts |-> "none"]
  /\ \E n \in HandledBefore :
       /\ error_handler = handled_before(config, n)
       /\ call_sites = [i \in 1..n |-> <<"caller", "None">>]
  /\ metrics = [active_jobs |-> 0, error_jobs |-> 0]
  /\ budget = MaxHistoryFaults
  /\ NoSide

HistorySpec == HistoryInit /\ [][HandlerNext]_vars

\* ------------------------------------------------------ the health monitor
\* The health monitor with monitoring enabled or not, over every value of
\* the job gauges up to MaxGauge.
HealthInit ==
  /\ BootJobs({DefaultConfig}, 0)
  /\ metrics \in [active_jobs : 0..MaxGauge, error_jobs : 0..MaxGauge]
  /\ NoDelayCall
  /\ health_checks = [p \in ProbeNames |-> "none"]
  /\ overall_status = "none"
  /\ ready_response = <<>>
  /\ health \in {[HealthChecker EXCEPT !.enabled = e] : e \in BOOLEAN}
  /\ NoValidation
  /\ NoCounters
  /\ NoApp
  /\ NoCalls

\* the variables the health monitor leaves alone
not_health ==
  <<orchestrator, delay_call, overall_status, ready_response, loaded_config,
    validation, records_processed, metrics_buffer, app, classified,
    backoff>>

\* HealthChecker.start, lines 76-85: with monitoring disabled it returns at
\* once; otherwise the probe task is created and start() awaits
\* _start_http_server
health_start ==
  /\ health.main = "init"
  /\ health' = IF health.enabled
               THEN [health EXCEPT !.task = "ready", !.main = "serving"]
               ELSE [health EXCEPT !.main = "returned"]
  /\ UNCHANGED <<not_health, health_checks>>

\* HealthChecker.start, lines 85-92: _start_http_server returns and running
\* is set, or it raises and start() raises
health_start_http_server ==
  /\ health.main = "serving"
  /\ \/ health' = [health EXCEPT !.running = TRUE, !.main = "started"]
     \/ health' = [health EXCEPT !.main = "failed"]
  /\ UNCHANGED <<not_health, health_checks>>

\* HealthChecker.stop, line 97
health_stop ==
  /\ health.main \in {"started", "failed", "returned"}
  /\ health' = [health EXCEPT !.running = FALSE, !.main = "stopped"]
  /\ UNCHANGED <<not_health, health_checks>>

\* _run_health_checks, line 197, when the task first runs or its sleep
\* ends.  The task runs when the coroutine that created it is suspended:
\* inside _start_http_server (site.start() awaits the event loop's
\* create_server) or at any later await of the application.
run_health_checks_wake ==
  /\ health.task = "ready"
  /\ health' = IF health.running
               THEN [health EXCEPT !.task = "probing", !.probe = 1]
               ELSE [health EXCEPT !.task = "done"]
  /\ UNCHANGED <<not_health, health_checks>>

\* _run_health_checks, lines 200-206: the next probe of the cycle runs and
\* records its result; after the last one the loop sleeps
run_probe ==
  /\ health.task = "probing"
  /\ \E raised \in BOOLEAN, level \in UsageLevels :
       LET name == ProbeOrder[health.probe]
           failed == IF raised THEN health.failed \cup {name}
                     ELSE health.failed \ {name}
       IN  /\ health_checks' =
                [health_checks EXCEPT
                   ![name] = probe_status(name, metrics, raised, level)]
           /\ health' = IF health.probe < Len(ProbeOrder)
                        THEN [health EXCEPT !.probe = @ + 1,
                                            !.failed = failed]
                        ELSE [health EXCEPT !.task = "ready", !.probe = 0,
                                            !.failed = failed]
  /\ UNCHANGED not_health

HealthNext ==
  \/ health_start
  \/ health_start_http_server
  \/ health_stop
  \/ run_health_checks_wake
  \/ run_probe

HealthSpec == HealthInit /\ [][HealthNext]_vars

\* ------------------------------------------- validation of a configuration
\* the table configurations validate_config is applied to
TableConfigs ==
  [source_table : {"", "users"}, target_table : {"", "users"},
   primary_key : {"", "id", "uid"}, columns : {<<>>, <<"id", "name">>}]

\* the sequences of at most n elements of set S
SeqsUpTo(S, n) == UNION {[1..k -> S] : k \in 0..n}

ValidateInit ==
  /\ Boot({DefaultConfig}, 0)
  /\ NoDelayCall
  /\ NoHealthChecker
  /\ loaded_config \in
       [postgres_host : {"", "localhost"}, starrocks_host : {"", "localhost"},
        tables : SeqsUpTo(TableConfigs, MaxTables)]
  /\ validation = <<>>
  /\ NoCounters
  /\ NoApp
  /\ NoCalls

\* validate_config is called on the loaded configuration
validate ==
  /\ validation = <<>>
  /\ validation' = <<validate_config(loaded_config)>>
  /\ UNCHANGED <<orchestrator, delay_call, health_checks, overall_status,
                 ready_response, health, loaded_config, records_processed,
                 metrics_buffer, app, classified,
    backoff>>

ValidateNext == validate

ValidateSpec == ValidateInit /\ [][ValidateNext]_vars

\* ------------------------------------------- the job set of a configuration
\* the table configurations start() is run with: any source table, either
\* of two target tables, enabled or not
JobTableConfigs ==
  [source_table : TableNames, target_table : {"copy", "archive"},
   primary_key : {"id"}, columns : {<<"id", "name">>}, enabled : BOOLEAN]

\* ProductionConfigManager.get_all_tables on the loaded tables
enabled_table_configs(loaded) ==
  SelectSeq(loaded.tables, LAMBDA table : table.enabled)

JobSetInit ==
  /\ Boot({DefaultConfig}, MaxEvents)
  /\ NoDelayCall
  /\ NoHealthChecker
  /\ loaded_config \in
       [postgres_host : {"localhost"}, starrocks_host : {"localhost"},
        tables : SeqsUpTo(JobTableConfigs, MaxTables)]
  /\ validation = <<>>
  /\ NoCounters
  /\ NoApp
  /\ NoCalls

\* _initialize_sync_jobs, lines 144-157, for the next enabled table
\* configuration: a new SyncJob is put under its source_table and
\* _start_sync_job runs on it, ending in Running or in Error
initialize_sync_job ==
  /\ cur.task = "start" /\ cur.at = "init"
  /\ cur.i <= Len(enabled_table_configs(loaded_config))
  /\ LET table == enabled_table_configs(loaded_config)[cur.i].source_table
         job == job_starting(SyncJob(cur.g))
     IN  \/ /\ sync_jobs' = [sync_jobs EXCEPT ![table] = job_running(job)]
            /\ UNCHANGED <<error_handler, call_sites, budget>>
         \/ /\ budget > 0
            /\ budget' = budget - 1
            /\ \E kind \in RaisedKinds :
                 /\ sync_jobs' =
                      [sync_jobs EXCEPT ![table] = job_failed(job, kind)]
                 /\ error_handler' = handle_error(config, error_handler, kind)
            /\ call_sites' = Append(call_sites, <<"job_start", table>>)
  /\ cur' = [cur EXCEPT !.i = @ + 1]
  /\ UNCHANGED <<side, config, running, starts, shutdown, monitor_tasks,
                 metrics_tasks, metrics>>

\* start, lines 75-79, after the last enabled table configuration
initialize_sync_jobs_return ==
  /\ cur.task = "start" /\ cur.at = "init"
  /\ cur.i > Len(enabled_table_configs(loaded_config))
  /\ monitor_tasks' = [monitor_tasks EXCEPT ![cur.g] = "waiting"]
  /\ metrics_tasks' = [metrics_tasks EXCEPT ![cur.g] = "waiting"]
  /\ running' = TRUE
  /\ cur' = Idle
  /\ UNCHANGED <<side, config, sync_jobs, starts, shutdown, error_handler,
                 call_sites, metrics, budget>>

JobSetNext ==
  \/ start_call
  \/ start_setup
  \/ initialize_sync_job
  \/ initialize_sync_jobs_return

JobSetSpec == JobSetInit /\ [][JobSetNext]_vars

\* ----------------------------------------------------- the records counter
\* amounts record_record_processed and record_app_metrics are called with
Amounts == {-1, 0, 1}

MetricsInit ==
  /\ Boot({DefaultConfig}, 0)
  /\ NoDelayCall
  /\ NoHealthChecker
  /\ NoValidation
  /\ NoCounters
  /\ NoApp
  /\ NoCalls

\* the variables the calls on the metrics collector leave alone
not_metrics ==
  <<config, running, sync_jobs, cur, starts, shutdown, monitor_tasks,
    metrics_tasks, error_handler, call_sites, budget, delay_call,
    health_checks, overall_status, ready_response, health, loaded_config,
    validation, app, classified,
    backoff>>

\* MetricsCollector.record_record_processed(table, operation, count): a
\* negative count raises in inc, before anything is buffered
record_record_processed ==
  \E l \in Labels, count \in Amounts :
    /\ records_processed[l] + count <= MaxCount
    /\ Len(metrics_buffer) < MaxBuffered
    /\ records_processed' = counter_inc(records_processed, l, count)
    /\ metrics_buffer' = IF count < 0 THEN metrics_buffer
                         ELSE add_to_buffer(metrics_buffer, count)
    /\ UNCHANGED <<not_metrics, metrics>>

\* MetricsCollector.record_app_metrics(metrics) with a job gauge and the
\* records counter among the names, in either order: the loop ends at the
\* counter, whose inc raises
record_app_metrics_call ==
  \E gauge \in {0, MaxGauge}, value \in Amounts, counter_first \in BOOLEAN :
    /\ metrics' = IF counter_first THEN metrics
                  ELSE record_app_metrics(metrics, [error_jobs |-> gauge])
    /\ records_processed' = record_app_metrics_counter(records_processed, value)
    /\ UNCHANGED <<not_metrics, metrics_buffer>>

\* _process_metrics_buffer, lines 255-258: one iteration of the drain loop
process_metrics_buffer ==
  /\ metrics_buffer # <<>>
  /\ metrics_buffer' = <<>>
  /\ UNCHANGED <<not_metrics, metrics, records_processed>>

MetricsNext ==
  \/ record_record_processed
  \/ record_app_metrics_call
  \/ process_metrics_buffer

MetricsSpec == MetricsInit /\ [][MetricsNext]_vars

\* ------------------------------------------------ startup of the process
\* a section of the configuration source: complete, lacking a required
\* field, or with a value of the wrong type in one
SectionStates == {"ok", "missing", "malformed"}

\* an entry of tables: enabled, enabled: false, or lacking a required field
TableStates == {"enabled", "disabled", "malformed"}

AppInit ==
  /\ Boot({DefaultConfig}, 0)
  /\ NoDelayCall
  /\ NoHealthChecker
  /\ NoValidation
  /\ NoCounters
  /\ NoCalls
  /\ app \in {[ProductionApp EXCEPT !.postgres = pg, !.starrocks = sr,
                                      !.flink = fl, !.tables = tb,
                                      !.monitoring = mon] :
                 pg \in SectionStates, sr \in SectionStates,
                 fl \in {"ok", "missing"},
                 tb \in SeqsUpTo(TableStates, MaxTables), mon \in BOOLEAN}

\* the variables the startup of the process leaves alone
not_app ==
  <<orchestrator, delay_call, health_checks, overall_status, ready_response,
    health, loaded_config, validation, records_processed, metrics_buffer,
    classified, backoff>>

\* ProductionConfigManager.__init__, lines 136-144: the pydantic models
\* raise on a required field that is missing or of the wrong type; nothing
\* else about the configuration is checked
config_raises(a) ==
  \/ a.postgres # "ok"
  \/ a.starrocks # "ok"
  \/ a.flink # "ok"
  \/ \E i \in DOMAIN a.tables : a.tables[i] = "malformed"

\* ProductionApp.initialize, lines 42-51: the configuration is loaded
app_load_config ==
  /\ app.pc = "init"
  /\ app' = [app EXCEPT !.pc = IF config_raises(app) THEN "failed"
                                ELSE "loaded"]
  /\ UNCHANGED not_app

\* ProductionApp.initialize, lines 54-55, MetricsCollector.start: with
\* monitoring enabled the metrics port is bound, or the bind fails
app_metrics_start ==
  /\ app.pc = "loaded"
  /\ \/ /\ ~app.monitoring
        /\ app' = [app EXCEPT !.pc = "metrics"]
     \/ /\ app.monitoring
        /\ \/ app' = [app EXCEPT !.pc = "metrics",
                                  !.listeners = @ \cup {"metrics"}]
           \/ app' = [app EXCEPT !.pc = "failed"]
  /\ UNCHANGED not_app

\* ProductionApp.initialize, lines 58-66, HealthChecker.start: with
\* monitoring enabled the health port is bound, or the bind fails
app_health_start ==
  /\ app.pc = "metrics"
  /\ \/ /\ ~app.monitoring
        /\ app' = [app EXCEPT !.pc = "initialized"]
     \/ /\ app.monitoring
        /\ \/ app' = [app EXCEPT !.pc = "initialized",
                                  !.listeners = @ \cup {"health"}]
           \/ app' = [app EXCEPT !.pc = "failed"]
  /\ UNCHANGED not_app

\* ProductionApp.start, lines 80-90: the orchestrator is started and the
\* process runs until it is interrupted
app_sync_start ==
  /\ app.pc = "initialized"
  /\ app' = [app EXCEPT !.pc = "running"]
  /\ UNCHANGED not_app

\* the signal handler, lines 119-121, and shutdown: the loop of start ends
\* and the process returns from main
app_signal ==
  /\ app.pc = "running"
  /\ app' = [app EXCEPT !.pc = "exited", !.exit_status = <<0>>]
  /\ UNCHANGED not_app

\* ProductionApp.start, lines 92-95: shutdown, then sys.exit(1)
app_exit ==
  /\ app.pc = "failed"
  /\ app' = [app EXCEPT !.pc = "exited", !.exit_status = <<1>>]
  /\ UNCHANGED not_app

AppNext ==
  \/ app_load_config
  \/ app_metrics_start
  \/ app_health_start
  \/ app_sync_start
  \/ app_signal
  \/ app_exit

AppSpec == AppInit /\ [][AppNext]_vars

\* ------------------------------------------------------ the classification
\* the faults _classify_error is applied to: the built-in classes its rules
\* name, a subclass of each family, and one class no rule names
ClassifyKinds ==
  FaultKinds \cup {"ConnectionResetError", "FileNotFoundError",
                   "UnicodeDecodeError"}

ClassifyInit ==
  /\ Boot(HandlerConfigs, 0)
  /\ NoDelayCall
  /\ NoHealthChecker
  /\ NoValidation
  /\ NoCounters
  /\ NoApp
  /\ classified \in {[kind |-> k, result |-> <<>>] : k \in ClassifyKinds}
  /\ backoff = Backoff

\* ErrorHandler._classify_error(exception, ErrorContext()) is called; it
\* reads the policy and writes nothing of the handler
classify ==
  /\ classified.result = <<>>
  /\ classified' =
       [classified EXCEPT
          !.result = <<classify_error(config, classified.kind, 0)>>]
  /\ UNCHANGED <<orchestrator, delay_call, health_checks, overall_status,
                 ready_response, health, loaded_config, validation,
                 records_processed, metrics_buffer, app, backoff>>

ClassifyNext == classify

ClassifySpec == ClassifyInit /\ [][ClassifyNext]_vars

\* ------------------------------------------------- the backoff decorator
\* how one invocation of the wrapped function ends: it returns, it raises
\* an Exception, or it raises a fault that is no Exception
Invocations == {"returns", "ConnectionError", "KeyboardInterrupt"}

\* the wrapper is called, with every set of decorator arguments
BackoffInit ==
  /\ Boot({DefaultConfig}, 0)
  /\ NoDelayCall
  /\ NoHealthChecker
  /\ NoValidation
  /\ NoCounters
  /\ NoApp
  /\ classified = [kind |-> "None", result |-> <<>>]
  /\ backoff \in {[Backoff EXCEPT !.max_retries = n, !.base_delay = base,
                                   !.max_delay = cap,
                                   !.exponential_base = mult, !.at = "call"] :
                     n \in (-1)..MaxBackoffRetries, base \in {500, 1000},
                     cap \in {3000, 30000}, mult \in {2, 3}}

\* the variables the wrapper leaves alone
not_backoff ==
  <<orchestrator, delay_call, health_checks, overall_status, ready_response,
    health, loaded_config, validation, records_processed, metrics_buffer, app,
    classified>>

\* wrapper, lines 400-418: one iteration of the loop.  The function is
\* invoked; its result is returned, or its fault is raised again when it is
\* no Exception or when this was the last attempt, or the wrapper sleeps
wrapper_attempt ==
  /\ backoff.at = "call"
  /\ backoff.attempt <= backoff.max_retries
  /\ \E end \in Invocations :
       LET calls == backoff.calls + 1
       IN  backoff' =
             IF end = "returns"
             THEN [backoff EXCEPT !.calls = calls, !.at = "done",
                                  !.outcome = <<"returned", calls>>]
             ELSE IF ~isinstance(end, {"Exception"})
                     \/ backoff.attempt = backoff.max_retries
             THEN [backoff EXCEPT !.calls = calls, !.at = "done",
                                  !.outcome = <<"raised", calls>>]
             ELSE [backoff EXCEPT
                     !.calls = calls, !.at = "sleep",
                     !.sleeps = Append(@, backoff_delay(backoff,
                                                        backoff.attempt))]
  /\ UNCHANGED not_backoff

\* wrapper, line 418: the sleep ends and the loop takes its next attempt
wrapper_wake ==
  /\ backoff.at = "sleep"
  /\ backoff' = [backoff EXCEPT !.at = "call", !.attempt = @ + 1]
  /\ UNCHANGED not_backoff

\* wrapper, line 420: the range of the loop is empty or used up, and
\* `raise last_exception` runs; with no fault recorded it raises a TypeError
\* of its own (invocation 0)
wrapper_exhausted ==
  /\ backoff.at = "call"
  /\ backoff.attempt > backoff.max_retries
  /\ backoff' = [backoff EXCEPT !.at = "done",
                                !.outcome = <<"raised", backoff.calls>>]
  /\ UNCHANGED not_backoff

BackoffNext ==
  \/ wrapper_attempt
  \/ wrapper_wake
  \/ wrapper_exhausted

BackoffSpec == BackoffInit /\ [][BackoffNext]_vars

\* the event loop runs the wrapper whenever it can take a step
BackoffFairSpec == BackoffSpec /\ WF_vars(BackoffNext)

\* ------------------------------------------------- the delay calculation
\* the error policies the delay calculation is applied to
DelayConfigs ==
  { [DefaultConfig EXCEPT !.retry_delay = base, !.exponential_backoff = exp,
                          !.max_retry_delay = cap] :
      base \in {500, 1000, 2000, 10000}, exp \in BOOLEAN, cap \in {5000, 30000} }

DelayInit ==
  /\ Boot(DelayConfigs, 0)
  /\ delay_call \in [retry_count : 0..MaxRetryCount, result : {<<>>}]
  /\ NoHealthChecker
  /\ NoValidation
  /\ NoCounters
  /\ NoApp
  /\ NoCalls

\* _handle_retry, line 306: _calculate_retry_delay is called for a fault
\* whose context has the given retry_count
calculate_delay ==
  /\ delay_call.result = <<>>
  /\ LET sync_error == classify_error(config, "ConnectionError", 1)
     IN  delay_call' =
           [delay_call EXCEPT !.result =
              <<calculate_retry_delay(config, sync_error.retry_delay,
                                      delay_call.retry_count)>>]
  /\ UNCHANGED <<orchestrator, health_checks, overall_status, ready_response,
                 health, loaded_config, validation, records_processed,
                 metrics_buffer, app, classified,
    backoff>>

DelayNext == calculate_delay

DelaySpec == DelayInit /\ [][DelayNext]_vars

\* ------------------------------------------------ the overall health fold
OverallInit ==
  /\ Boot({DefaultConfig}, 0)
  /\ NoDelayCall
  /\ health_checks \in [ProbeNames -> HealthStatuses \cup {"none"}]
  /\ overall_status = "none"
  /\ ready_response = <<>>
  /\ health = HealthChecker
  /\ NoValidation
  /\ NoCounters
  /\ NoApp
  /\ NoCalls

\* _health_endpoint, line 127: the overall status of the recorded results
health_endpoint ==
  /\ overall_status = "none"
  /\ overall_status' = get_overall_health_status(health_checks)
  /\ UNCHANGED <<orchestrator, delay_call, health_checks, ready_response,
                 health, loaded_config, validation, records_processed,
                 metrics_buffer, app, classified,
    backoff>>

\* _ready_endpoint, lines 148-164: the status code of the readiness answer
ready_endpoint ==
  /\ ready_response = <<>>
  /\ ready_response' = <<ready_status(health_checks)>>
  /\ UNCHANGED <<orchestrator, delay_call, health_checks, overall_status,
                 health, loaded_config, validation, records_processed,
                 metrics_buffer, app, classified,
    backoff>>

OverallNext == health_endpoint \/ ready_endpoint

OverallSpec == OverallInit /\ [][OverallNext]_vars

\* ================================================================== claims

\* the entries of sync_jobs
Jobs == {t \in TableNames : sync_jobs[t].gen # 0}

\* the changes of state the job state machine allows
AllowedTransitions ==
  {<<"stopped", "starting">>, <<"starting", "running">>,
   <<"starting", "error">>, <<"running", "error">>, <<"error", "starting">>,
   <<"stopping", "stopped">>}
  \cup {<<s, "stopping">> : s \in {"stopped", "starting", "running", "error"}}

\* C1: in every step of the orchestrator, a SyncJob whose status changes
\* makes one of the allowed transitions (so Running is entered from Starting
\* only), and a SyncJob that is created is created Stopped.
C1_TransitionsAllowed ==
  [][\A t \in TableNames :
       /\ (sync_jobs'[t].gen = sync_jobs[t].gen
             /\ sync_jobs'[t].status # sync_jobs[t].status)
          => <<sync_jobs[t].status, sync_jobs'[t].status>> \in AllowedTransitions
       /\ sync_jobs'[t].gen # sync_jobs[t].gen
          => sync_jobs'[t].status = "stopped"]_vars

\* C1 witness: a job is Running after a failed and a successful start attempt
C1_Witness ==
  \E t \in Jobs : sync_jobs[t].status = "running" /\ sync_jobs[t].error_count >= 1

\* C2: no step of stop() changes a job's error_count or last_error, and
\* when stop() returns every job is Stopped.
C2_StopLeavesAllStopped ==
  [][cur.task = "stop" =>
       /\ \A t \in TableNames :
            /\ sync_jobs'[t].error_count = sync_jobs[t].error_count
            /\ sync_jobs'[t].last_error = sync_jobs[t].last_error
       /\ cur' = Idle => \A t \in Jobs : sync_jobs'[t].status = "stopped"]_vars

\* C2 witness: a second stop() in a row has stopped every job again, one of
\* which has failed before, and is about to return
C2_Witness ==
  /\ shutdown /\ cur.task = "stop" /\ cur.i > Len(JobKeys)
  /\ Cardinality(Jobs) = 2
  /\ \E t \in Jobs : sync_jobs[t].error_count >= 1 /\ sync_jobs[t].last_error # "None"
  /\ \A t \in Jobs : sync_jobs[t].status = "stopped"

\* C3: once stop() has returned, and until start() is called again, no job
\* is Starting, Running or Error.
C3_StoppedIsTerminal ==
  shutdown => \A t \in Jobs : sync_jobs[t].status \in {"stopped", "stopping"}

\* C3 witness: after stop() returned, the supervisory loop has seen the flag
\* and ended, and a retry that was pending has fired; the job that had
\* failed is Stopped
C3_Witness ==
  /\ shutdown /\ cur = Idle
  /\ \E g \in 1..MaxStarts : monitor_tasks[g] = "done" /\ metrics_tasks[g] = "done"
  /\ \E c \in DOMAIN call_sites :
       /\ call_sites[c][1] = "job_start"
       /\ error_handler.contexts[c].retry_count >= 1
       /\ sync_jobs[call_sites[c][2]].status = "stopped"

\* C4: a job's error_count, the number of its failed start attempts, never
\* exceeds max_retries when max_retries >= 1, and a job in Error whose
\* error_count has reached max_retries stays in Error until stop() moves it
\* to Stopping.
C4_RestartsBounded ==
  /\ [](\A t \in Jobs :
          config.max_retries >= 1 => sync_jobs[t].error_count <= config.max_retries)
  /\ [][\A t \in Jobs :
          (/\ sync_jobs[t].status = "error"
           /\ sync_jobs[t].error_count >= config.max_retries
           /\ sync_jobs'[t].gen = sync_jobs[t].gen)
          => /\ sync_jobs'[t].status \in {"error", "stopping"}
             /\ sync_jobs'[t].status = "stopping" => cur.task = "stop"]_vars

\* C4 witness: the supervisory loop has passed a job that failed max_retries
\* times (twice or more) and left it in Error
C4_Witness ==
  /\ cur.task = "monitor" /\ cur.at = "record"
  /\ sync_jobs[CurTable].status = "error"
  /\ config.max_retries >= 2
  /\ sync_jobs[CurTable].error_count = config.max_retries

\* C5: with users and orders enabled and max_retries = 3, when no
\* submission has failed and both jobs are Running, the active_jobs gauge,
\* once published, reads 2 and the error_jobs gauge reads 0.
C5_GaugesReadTwoAndZero ==
  (/\ config.enabled = TableNames /\ config.max_retries = 3
   /\ error_handler.error_history = <<>>
   /\ cur = Idle
   /\ \A t \in TableNames : sync_jobs[t].status = "running")
  => /\ metrics.active_jobs \in {0, 2}
     /\ metrics.error_jobs = 0

\* the faults handled with ErrorContext c, oldest first
Faults(c) ==
  SelectSeq(error_handler.error_history, LAMBDA r : r.context = c)

\* the dead-lettered records of ErrorContext c
DeadLetters(c) ==
  SelectSeq(error_handler.dead_letter_queue, LAMBDA r : r.context = c)

\* A step in which handle_error handles a fault classified non-retryable
\* (the history grows by its record r): r is appended to the dead-letter
\* list (in every configuration, or when only_enabled, in those that enable
\* the dead-letter queue), no retry is pending for r's context or created
\* for another, and handle_error adds nothing to the context's retry_count:
\* it is 0 for a fresh context, and the count the firing retry made it for
\* the context of a retry whose operation raised.
NonRetryableRouted(only_enabled) ==
  LET before == error_handler
      after == error_handler'
      r == after.error_history[Len(after.error_history)]
  IN  (Len(after.error_history) = Len(before.error_history) + 1 /\ ~r.retryable)
      => /\ (only_enabled => config.dead_letter_queue)
            => after.dead_letter_queue = Append(before.dead_letter_queue, r)
         /\ after.retry_tasks[r.context] = <<>>
         /\ \A c \in DOMAIN before.retry_tasks \ {r.context} :
              after.retry_tasks[c] = before.retry_tasks[c]
         /\ after.contexts[r.context].retry_count =
              IF r.context \in DOMAIN before.contexts
              THEN before.contexts[r.context].retry_count + 1
              ELSE 0

\* C6 as stated: in every error-policy configuration, the first
\* handle_error call of a non-retryable fault puts the record in the
\* dead-letter list, schedules no retry and leaves retry_count unchanged.
C6_NonRetryableDeadLettered == [][NonRetryableRouted(FALSE)]_vars

\* C6 as amended: the same, with the record put in the dead-letter list in
\* the configurations that enable the dead-letter queue.
C6_NonRetryableDeadLetteredWhenEnabled == [][NonRetryableRouted(TRUE)]_vars

\* C6 witness: with the dead-letter queue enabled, a non-retryable fault is
\* in the dead-letter list, its context has retry_count 0 and no retry
C6_Witness ==
  /\ config.dead_letter_queue
  /\ \E i \in DOMAIN error_handler.dead_letter_queue :
       LET r == error_handler.dead_letter_queue[i]
       IN  /\ ~r.retryable
           /\ error_handler.contexts[r.context].retry_count = 0
           /\ error_handler.retry_tasks[r.context] = <<>>

\* the retry chain of ErrorContext c began with a retryable fault and has
\* ended in a failure: every retry that fired failed and none is pending
ChainFailed(c) ==
  /\ Faults(c) # <<>>
  /\ Faults(c)[1].retryable
  /\ Len(Faults(c)) = error_handler.contexts[c].retry_count + 1
  /\ error_handler.retry_tasks[c] = <<>>

C8_Sequence == <<1000, 2000, 4000, 8000, 16000, 30000>>

\* C8: the delay computed for retry count n is base * 2^n with exponential
\* backoff and base without, capped to max_retry_delay in both cases, so it
\* never exceeds max_retry_delay; for base 1000, cap 30000 and n = 0..5 it
\* is 1000, 2000, 4000, 8000, 16000, 30000.
C8_DelayCapped ==
  delay_call.result # <<>> =>
    LET n == delay_call.retry_count
        uncapped == IF config.exponential_backoff
                    THEN config.retry_delay * (2 ^ n) ELSE config.retry_delay
    IN  /\ delay_call.result[1] = Min(uncapped, config.max_retry_delay)
        /\ delay_call.result[1] <= config.max_retry_delay
        /\ (/\ config.exponential_backoff /\ config.retry_delay = 1000
            /\ config.max_retry_delay = 30000 /\ n <= 5)
           => delay_call.result[1] = C8_Sequence[n + 1]

Recorded == {p \in ProbeNames : health_checks[p] # "none"}

\* C10: the overall status is Unhealthy if any recorded probe is
\* Unhealthy; otherwise Degraded if any is Degraded; it is Healthy exactly
\* when there is a recorded probe and every recorded probe is Healthy; in
\* every other case, no recorded probe included, it is Unknown.
C10_OverallStatusFold ==
  overall_status # "none" =>
    LET any(status) == \E p \in Recorded : health_checks[p] = status
        all_healthy == Recorded # {} /\ \A p \in Recorded : health_checks[p] = "healthy"
    IN  /\ any("unhealthy") => overall_status = "unhealthy"
        /\ (~any("unhealthy") /\ any("degraded")) => overall_status = "degraded"
        /\ overall_status = "healthy" <=> all_healthy
        /\ (~any("unhealthy") /\ ~any("degraded") /\ ~all_healthy)
           => overall_status = "unknown"

\* C10 witness: one probe is Unhealthy, one Degraded, the others Healthy,
\* and the overall status is Unhealthy
C10_Witness ==
  /\ overall_status = "unhealthy"
  /\ Cardinality({p \in ProbeNames : health_checks[p] = "unhealthy"}) = 1
  /\ Cardinality({p \in ProbeNames : health_checks[p] = "degraded"}) = 1
  /\ Cardinality({p \in ProbeNames : health_checks[p] = "healthy"}) = 3

\* C11: the readiness endpoint answers 200 exactly when the latest results
\* of postgres_connection, starrocks_connection and flink_environment are
\* all Healthy, and 503 when one of them is Unhealthy, Degraded, Unknown or
\* has no result, whatever the sync_jobs and system_resources probes say.
C11_ReadyIffConnectivityHealthy ==
  ready_response # <<>> =>
    LET connectivity ==
          {"postgres_connection", "starrocks_connection", "flink_environment"}
    IN  /\ ready_response[1] \in {200, 503}
        /\ ready_response[1] = 200
           <=> \A p \in connectivity : health_checks[p] = "healthy"
        /\ (\E p \in connectivity :
              health_checks[p] \in {"unhealthy", "degraded", "unknown", "none"})
           => ready_response[1] = 503

\* C11 witness: the answer is 200 while the sync_jobs probe is Unhealthy
\* and the system_resources probe has no result
C11_Witness ==
  /\ ready_response = <<200>>
  /\ health_checks["sync_jobs"] = "unhealthy"
  /\ health_checks["system_resources"] = "none"

\* C12: after HealthChecker.start() with monitoring enabled, and until
\* stop(), the probe loop has not exited: the probe task is waiting for its
\* next cycle or running one.
C12_ProbeLoopRuns ==
  (health.enabled /\ health.main = "started")
  => health.task \in {"ready", "probing"}

\* C20: the recorded result of the sync_jobs probe is Degraded when the
\* error_jobs gauge is above 0, else Healthy when the active_jobs gauge is
\* above 0, else Unknown.
C20_SyncJobsProbeFollowsGauges ==
  health_checks["sync_jobs"] # "none" =>
    health_checks["sync_jobs"] =
      IF metrics.error_jobs > 0 THEN "degraded"
      ELSE IF metrics.active_jobs > 0 THEN "healthy"
      ELSE "unknown"

\* C13: for every table of the validated configuration whose primary_key
\* is not one of its columns, the list validate_config returns contains a
\* primary-key violation of that table.
C13_PrimaryKeyViolationReported ==
  validation # <<>> =>
    \A i \in DOMAIN loaded_config.tables :
      loaded_config.tables[i].primary_key
          \notin Range(loaded_config.tables[i].columns)
      => \E e \in Range(validation[1]) :
           e[1] \in {"primary_key_required", "primary_key_not_in_columns"}
           /\ e[2] = i

\* C14: for every (table, operation) label pair the records_processed
\* counter never decreases, whatever calls of record_record_processed and
\* record_app_metrics and whatever iterations of the buffer drain loop occur.
C14_RecordsProcessedMonotonic ==
  [][\A l \in Labels : records_processed'[l] >= records_processed[l]]_vars

\* a sample has been raised by record_record_processed, a job gauge has been
\* set by record_app_metrics and the drain loop has emptied the buffer
C14_Witness ==
  /\ \E l \in Labels : records_processed[l] >= 2
  /\ metrics.error_jobs > 0
  /\ metrics_buffer = <<>>

\* C15: a fatal configuration error at startup (a required field missing
\* or malformed, or no enabled table) binds no HTTP listener, neither the
\* metrics port nor the health port, never lets the application run, and
\* ends the process with a non-zero status.
FatalConfiguration ==
  \/ config_raises(app)
  \/ \A i \in DOMAIN app.tables : app.tables[i] # "enabled"

C15_FatalConfigBindsNoListener ==
  FatalConfiguration =>
    /\ app.listeners = {}
    /\ app.pc # "running"
    /\ app.exit_status \in {<<>>, <<1>>}

\* C16: a start attempt first marks the job Starting and sets start_time;
\* it ends either Running with error_count and last_error as they were and
\* no fault handed to the classifier, or in Error with error_count one
\* higher and last_error the message of the fault just classified; Running
\* and Error are entered from Starting only, and the error_count of a job
\* never decreases.
StartAttemptStep(t) ==
  LET job == sync_jobs[t]
      job_after == sync_jobs'[t]
      history == error_handler'.error_history
  IN  /\ (job_after.status = "starting" /\ job_after # job) =>
            /\ job.status \in {"stopped", "error"}
            /\ job_after.start_time = "set"
            /\ job_after.error_count = job.error_count
      /\ (job.status = "starting" /\ job_after # job) =>
            \/ /\ job_after = [job EXCEPT !.status = "running"]
               /\ error_handler' = error_handler
            \/ /\ job_after.status = "error"
               /\ job_after.error_count = job.error_count + 1
               /\ job_after.gen = job.gen
               /\ job_after.start_time = job.start_time
               /\ Len(history) = Len(error_handler.error_history) + 1
               /\ job_after.last_error = history[Len(history)].message
      /\ (job_after.status \in {"running", "error"}
            /\ job_after.status # job.status) => job.status = "starting"
      /\ job_after.gen = job.gen => job_after.error_count >= job.error_count

C16_StartAttemptOutcome == [][\A t \in TableNames : StartAttemptStep(t)]_vars

\* a job failed to start, was started again and now runs, still carrying
\* the count and the message of the failure
C16_Witness ==
  \E t \in TableNames :
    /\ sync_jobs[t].status = "running"
    /\ sync_jobs[t].error_count = 1
    /\ sync_jobs[t].last_error \in RaisedKinds

\* C17: the fault of a job start attempt is handed to the classifier once,
\* with a context whose table is the job's table and whose operation is
\* job_start, so that its record, its error-count key and its dead-letter
\* entry name the owning table.
C17_StartFaultCarriesJobContext ==
  \A c \in DOMAIN call_sites :
    call_sites[c][1] = "job_start" =>
      /\ error_handler.contexts[c].table = call_sites[c][2]
      /\ error_handler.contexts[c].operation = "job_start"
      /\ \A key \in DOMAIN error_handler.error_counts :
           (\E i \in DOMAIN Faults(c) : key[2] = Faults(c)[i].error_type)
             => key[1] \in TableNames

\* C18: at most one start attempt of a job is in flight: a job is Starting
\* only while the one task that is inside _start_sync_job for it has not
\* finished, no other task runs meanwhile, and the supervisory loop enters
\* _start_sync_job only for a job in Error, whose previous attempt is over;
\* this holds under every interleaving of start(), stop(), the supervisory
\* loops, the metrics loops and the retry tasks.
C18_OneStartAttemptInFlight ==
  /\ \A t \in TableNames :
       sync_jobs[t].status = "starting" => (cur.at = "submit" /\ CurTable = t)
  /\ (cur.task = "monitor" /\ cur.at = "start_job")
       => sync_jobs[CurTable].status = "error"
  /\ (cur.task = "start" /\ cur.at = "start_job")
       => sync_jobs[CurTable].status = "stopped"
  /\ Cardinality({t \in TableNames : sync_jobs[t].status = "starting"}) <= 1

\* the supervisory loop is inside a restart of a job that failed before,
\* while a retry task of the error handler is pending and a supervisory
\* loop of an earlier start() is still waiting
C18_Witness ==
  /\ cur.task = "monitor" /\ cur.at = "submit"
  /\ sync_jobs[CurTable].status = "starting"
  /\ sync_jobs[CurTable].error_count >= 1
  /\ \E c \in DOMAIN error_handler.retry_tasks :
       error_handler.retry_tasks[c] # <<>>
  /\ \E g \in DOMAIN monitor_tasks : g # cur.g /\ monitor_tasks[g] = "waiting"

\* C19: an iteration of the metrics loop leaves the active_jobs gauge at
\* the number of Running jobs and the error_jobs gauge at the number of jobs
\* in Error, and no step, the supervisory loop's push included, takes
\* either gauge above the number of jobs.
C19_GaugesFollowJobs ==
  [][/\ (cur = Idle /\ cur' = Idle /\ metrics' # metrics)
        => /\ metrics'.active_jobs = Count("running")'
           /\ metrics'.error_jobs = Count("error")'
     /\ metrics'.active_jobs <= Len(JobKeys')
     /\ metrics'.error_jobs <= Len(JobKeys')]_vars

\* C21: a failure raised inside any of the five probes is caught and that
\* probe's result is recorded as Unhealthy; the remaining probes of the
\* cycle still run and the loop goes on to the next cycle.
C21_FailedProbeRecordedUnhealthy ==
  /\ \A p \in health.failed : health_checks[p] = "unhealthy"
  /\ (health.task = "probing" /\ health.probe > 1)
       => \A i \in 1..(health.probe - 1) : health_checks[ProbeOrder[i]] # "none"

\* C22: the orchestrator does not start on a configuration with no enabled
\* table: start() never ends in the running state with an empty job set.
C22_NoStartWithoutEnabledTable ==
  running => get_all_tables(config) # <<>>

\* C23: the classification of a fault is decided by its kind, in rule
\* order: connectivity and timeout faults are (High, Connection, retryable)
\* although they are OS-level faults too; validation and type faults are
\* (Medium, DataValidation, not retryable); interrupt and exit signals are
\* (Critical, Unknown, not retryable); the other resource and OS-level
\* faults are (Medium, System, retryable); any other fault is (Medium,
\* Unknown, retryable).  max_retries and retry_delay are those of the error
\* policy, and the handler's state is as it was.
ExpectedClass(kind) ==
  IF kind \in {"ConnectionError", "TimeoutError", "ConnectionResetError"}
  THEN <<"high", "connection", TRUE>>
  ELSE IF kind \in {"ValueError", "TypeError", "UnicodeDecodeError"}
  THEN <<"medium", "data_validation", FALSE>>
  ELSE IF kind \in {"KeyboardInterrupt", "SystemExit"}
  THEN <<"critical", "unknown", FALSE>>
  ELSE IF kind \in {"MemoryError", "OSError", "FileNotFoundError"}
  THEN <<"medium", "system", TRUE>>
  ELSE <<"medium", "unknown", TRUE>>

C23_ClassificationByKind ==
  classified.result # <<>> =>
    LET r == classified.result[1]
    IN  /\ <<r.severity, r.category, r.retryable>>
             = ExpectedClass(classified.kind)
        /\ r.error_type = classified.kind
        /\ r.max_retries = config.max_retries
        /\ r.retry_delay = config.retry_delay
        /\ error_handler.error_history = <<>>
        /\ error_handler.error_counts = <<>>
        /\ error_handler.dead_letter_queue = <<>>
        /\ error_handler.contexts = <<>>

\* a connection reset, which is an OSError as well, was classified as a
\* connection fault under a policy of three retries
C23_Witness ==
  /\ classified.kind = "ConnectionResetError"
  /\ classified.result # <<>>
  /\ classified.result[1].category = "connection"
  /\ classified.result[1].max_retries = 3

\* C24: when a scheduled retry of a fault context fires, its retry_count
\* grows by exactly one and the operation that failed is invoked again: for
\* the fault of a job's start attempt, with the job still in Error, a start
\* attempt of that job is made (the job leaves Error or its error_count
\* grows); a retry that raises nothing schedules no retry and dead-letters
\* nothing.
C24_RetryReinvokesOperation ==
  [][\A c \in DOMAIN error_handler.contexts :
       LET before == error_handler.contexts[c].retry_count
           after == error_handler'.contexts[c].retry_count
           table == call_sites[c][2]
       IN  /\ after \in {before, before + 1}
           /\ (after = before + 1 /\ call_sites[c][1] = "job_start"
                /\ sync_jobs[table].status = "error")
              => sync_jobs'[table] # sync_jobs[table]
           /\ (after = before + 1
                /\ Len(error_handler'.error_history)
                      = Len(error_handler.error_history))
              => /\ Len(error_handler'.retry_tasks[c])
                      = Len(error_handler.retry_tasks[c]) - 1
                 /\ error_handler'.dead_letter_queue
                      = error_handler.dead_letter_queue]_vars

\* C25: the retries of one fault context are sequential: at most one retry
\* task of a context is pending at any time; a step raises the retry_count
\* of at most one context, by one, and only by firing that context's one
\* pending task, after which at most one new task of the context is
\* pending; this holds under every interleaving of retry tasks and faults.
C25_RetriesSequential ==
  [][LET before == error_handler.contexts
         after == error_handler'.contexts
         fired == {c \in DOMAIN before :
                     after[c].retry_count # before[c].retry_count}
     IN  /\ \A c \in DOMAIN after : Len(error_handler'.retry_tasks[c]) <= 1
         /\ Cardinality(fired) <= 1
         /\ \A c \in fired :
              /\ after[c].retry_count = before[c].retry_count + 1
              /\ Len(error_handler.retry_tasks[c]) = 1
              /\ \A d \in DOMAIN before \ {c} :
                   error_handler'.retry_tasks[d] = error_handler.retry_tasks[d]
    ]_vars

\* the second retry of one context is pending while the first retry of a
\* later fault's context is pending too
C25_Witness ==
  \E c, d \in DOMAIN error_handler.contexts :
    /\ c # d
    /\ error_handler.contexts[c].retry_count = 1
    /\ Len(error_handler.retry_tasks[c]) = 1
    /\ error_handler.contexts[d].retry_count = 0
    /\ Len(error_handler.retry_tasks[d]) = 1

\* C26: a function wrapped with max_retries = N is invoked at most N + 1
\* times; the wrapper returns the result of the first invocation that
\* succeeds and makes no call after it; between consecutive attempts it has
\* slept min(base_delay * multiplier^attempt, max_delay); after the
\* (N+1)-th failure it raises that last fault without another sleep; and
\* every call of the wrapper ends.
BackoffSafe ==
  /\ backoff.calls <= backoff.max_retries + 1
  /\ \A j \in DOMAIN backoff.sleeps :
       backoff.sleeps[j] =
         IF backoff.base_delay * (backoff.exponential_base ^ (j - 1))
              < backoff.max_delay
         THEN backoff.base_delay * (backoff.exponential_base ^ (j - 1))
         ELSE backoff.max_delay
  /\ backoff.at = "sleep" => Len(backoff.sleeps) = backoff.calls
  /\ backoff.at = "call" => Len(backoff.sleeps) = backoff.calls
  /\ backoff.at = "done" =>
       /\ backoff.outcome # <<>>
       /\ backoff.outcome[2] = backoff.calls
       /\ Len(backoff.sleeps) = backoff.calls - 1 \/ backoff.calls = 0
       /\ Len(backoff.sleeps) <= backoff.max_retries \/ backoff.calls = 0

C26_BackoffBoundedAndEnds == []BackoffSafe /\ <>(backoff.at = "done")

\* with max_retries = 3 every one of the four invocations failed: three
\* delays were slept, the last of them capped, and the fourth fault raised
C26_Witness ==
  /\ backoff.max_retries = 3 /\ backoff.max_delay = 3000
  /\ backoff.at = "done"
  /\ backoff.calls = 4
  /\ backoff.outcome = <<"raised", 4>>
  /\ backoff.sleeps = <<1000, 2000, 3000>>

\* C27: the error history never holds more than 1000 records; every fault
\* that is handled, retryable or not, dead-lettered or not, is appended to
\* it once, and when that makes 1001 records the history is cut to the 500
\* most recent ones, in their order; no other step changes the history.
C27_HistoryBounded ==
  [][LET h == error_handler.error_history
         after == error_handler'.error_history
     IN  /\ Len(after) <= 1000
         /\ IF budget' = budget - 1
            THEN LET all == h \o <<after[Len(after)]>>
                 IN  IF Len(all) > 1000
                     THEN /\ Len(after) = 500
                          /\ \A i \in 1..500 : after[i] = all[Len(all) - 500 + i]
                     ELSE after = all
            ELSE after = h]_vars

\* the 1001st fault was handled: the history holds 500 records, the last
\* of them that fault's and the first the 502nd fault's
C27_Witness ==
  /\ Len(error_handler.contexts) = 1001
  /\ Len(error_handler.error_history) = 500
  /\ error_handler.error_history[500].context = 1001
  /\ error_handler.error_history[1].context = 502

\* C28: once start() has returned, the jobs correspond one-to-one to the
\* enabled table configurations: there are as many jobs as enabled table
\* configurations, each of these has a job under its source table, and no
\* job stands for a table that has no enabled configuration.
C28_OneJobPerEnabledTable ==
  (running /\ cur = Idle) =>
    LET enabled == enabled_table_configs(loaded_config)
    IN  /\ Len(JobKeys) = Len(enabled)
        /\ \A i \in DOMAIN enabled :
             sync_jobs[enabled[i].source_table].gen # 0
        /\ \A t \in TableNames :
             sync_jobs[t].gen # 0
               => \E i \in DOMAIN enabled : enabled[i].source_table = t

\* C29: while the orchestrator runs, at most one supervisory loop and at
\* most one metrics loop are alive (created and not ended), whatever
\* start() and stop() calls were made, and only the supervisory loop of the
\* latest start() goes through the jobs.
C29_OneLoopOfEachKind ==
  /\ running =>
       /\ Cardinality({g \in DOMAIN monitor_tasks :
                         monitor_tasks[g] = "waiting"}) <= 1
       /\ Cardinality({g \in DOMAIN metrics_tasks :
                         metrics_tasks[g] = "waiting"}) <= 1
  /\ cur.task = "monitor" => cur.g = starts

\* C30: start failures are isolated per table.  A start attempt made by
\* start() hands control back to the loop over the tables whether it failed
\* or not, and when start() returns every enabled table has a job of this
\* start() that is Running or in Error, and the orchestrator runs.  A job is
\* put in Error, and its error_count is changed, only by its own start
\* attempt; it leaves Error only by its own restart or when stop() stops it.
StartIsolatedStep(t) ==
  LET job == sync_jobs[t]
      job_after == sync_jobs'[t]
      own_attempt == cur.at = "submit" /\ CurTable = t
  IN  /\ (job_after.gen = job.gen /\ job_after.error_count # job.error_count)
           => own_attempt
      /\ (job_after.status = "error" /\ job.status # "error")
           => (own_attempt /\ job_after.gen = job.gen)
      /\ (job.status = "error" /\ job_after.status # "error"
           /\ job_after.gen = job.gen)
           => \/ cur.at = "start_job" /\ CurTable = t
              \/ cur.task = "stop"

C30_StartFailuresIsolated ==
  [][/\ \A t \in TableNames : StartIsolatedStep(t)
     /\ (cur.task = "start" /\ cur.at = "submit")
          => cur' = [cur EXCEPT !.i = @ + 1, !.at = "init"]
     /\ (cur.task = "start" /\ cur.at = "init" /\ cur' = Idle)
          => /\ running'
             /\ \A i \in DOMAIN get_all_tables(config) :
                  LET job == sync_jobs'[get_all_tables(config)[i]]
                  IN  job.gen = cur.g /\ job.status \in {"running", "error"}
    ]_vars

\* start() has returned: the job of the first table failed to start and is
\* in Error, the job of the second table was started after it and runs
C30_Witness ==
  /\ running /\ cur = Idle /\ starts = 1
  /\ sync_jobs["users"].status = "error"
  /\ sync_jobs["users"].error_count = 1
  /\ sync_jobs["orders"].status = "running"
  /\ sync_jobs["orders"].error_count = 0
  /\ sync_jobs["orders"].gen = sync_jobs["users"].gen

====
